---- MODULE Spec2Model ----
(***************************************************************************)
(* Connection lifecycle of MCPWebSocketBridge (mcp2websocket.js): the      *)
(* stdio <-> WebSocket relay, its message queue, reconnect backoff,        *)
(* heartbeat and shutdown.  Every handler of the class is one action; the  *)
(* methods are operators on the record of the object's fields.             *)
(***************************************************************************)
EXTENDS Integers, Sequences, FiniteSets, TLC

(***************************************************************************)
(* Bounds of the model (not program constants).                            *)
(***************************************************************************)
\* well-formed lines the client writes to stdin
MaxMsgs == 3
\* unparsable lines the client writes to stdin
MaxBad == 1
\* frames the server sends, well-formed or not
MaxInbound == 2
\* consecutive connection attempts the server may refuse before accepting one
MaxAttempts == 11
\* heartbeat intervals alive at once, when startHeartbeat() is called from outside
MaxHeartbeats == 2

(***************************************************************************)
(* Program constants: the defaults of this.options.                        *)
(***************************************************************************)
ReconnectInterval == 1000
MaxReconnectInterval == 30000
\* reconnectDecay 1.5 as the fraction DecayNum / DecayDen
DecayNum == 3
DecayDen == 2
\* process.exit(0)
ExitStatus == 0

\* Delays are kept in units of 1/DelayScale ms, so that every unclamped value
\* 1000 * 1.5^n (n <= 8, denominators up to 2^5) is an integer, as exact as the
\* double arithmetic of Math.pow and Math.min is on these dyadic values.
DelayScale == 2^5

Pow(b, n) == IF n = 0 THEN 1 ELSE LET RECURSIVE P(_) P(k) == IF k = 0 THEN 1 ELSE b * P(k - 1) IN P(n)

VARIABLES
    started,            \* start() has run (handlers are registered)
    token,              \* this.options.token, "" when there is none
    ws,                 \* this.ws is a socket (not null)
    wsHeaders,          \* the headers option of the last new WebSocket(url, {headers})
    readyState,         \* this.ws.readyState, "NONE" while this.ws is null
    messageQueue,       \* this.messageQueue: parsed messages
    reconnectAttempts,  \* this.reconnectAttempts
    isConnected,        \* this.isConnected
    heartbeatTimer,     \* this.heartbeatTimer is a handle (not null)
    heartbeatActive,    \* number of setInterval timers alive in the event loop
    reconnectTimer,     \* this.reconnectTimer is a handle (truthy)
    timerActive,        \* the setTimeout of scheduleReconnect is pending
    timerDelay,         \* its timeout, in 1/DelayScale ms
    rlClosed,           \* the readline interface is closed
    exited,             \* process.exit was called
    exitCode,           \* with this status (-1 before)
    hung,               \* a handler never returns (the event loop is blocked)
    sent,               \* texts handed to ws.send, over all sockets, in order
    stdout,             \* lines written by console.log, in order
    effects,            \* what the last turn of the event loop did, in order
    lastEvent,          \* the event the last turn handled
    stdinGood,          \* history: well-formed lines read so far (the k-th carries value k)
    stdinBad,           \* history: unparsable lines read so far
    inbound,            \* history: frames received from the server so far
    decodedLines,       \* history: the values JSON.parse gave for the stdin lines, in order
    decodedFrames,      \* history: the values JSON.parse gave for the frames, in order
    failedAttempts,     \* history: failed connection attempts since the last 'open'
    everConnected,      \* history: some connection attempt has succeeded
    priorRetries        \* history: the retries that preceded the last 'open', until the next retry

bridgeVars == <<ws, wsHeaders, readyState, messageQueue, reconnectAttempts, isConnected,
                heartbeatTimer, heartbeatActive, reconnectTimer, timerActive,
                timerDelay, rlClosed, exited, exitCode, hung, sent, stdout, effects>>
historyVars == <<stdinGood, stdinBad, inbound, decodedLines, decodedFrames,
                 failedAttempts, everConnected, priorRetries>>
vars == <<started, token, bridgeVars, lastEvent, historyVars>>

(***************************************************************************)
(* Frame codec: JSON.parse and JSON.stringify.  A text is a value in one   *)
(* of two spellings (JSON.stringify writes the compact one) or garbage.    *)
(* The k-th well-formed stdin line carries the value k, the k-th           *)
(* well-formed frame the value k.                                          *)
(*                                                                         *)
(* A document may hold a number literal beyond the range of a double       *)
(* (1e999): JSON.parse reads it as Infinity, and JSON.stringify writes     *)
(* Infinity as null.  The value k + Stride is document k with Infinity     *)
(* for that number, k + 2 * Stride is document k with null in its place.   *)
(***************************************************************************)
Garbage == [val |-> 0, form |-> "garbage"]

Texts(n) == [val : 1..n, form : {"compact", "spaced"}] \cup {Garbage}

\* the documents with a number literal beyond the range of a double
OverflowTexts(n) == [val : 1..n, form : {"overflow"}]

\* more than any document number
Stride == 1 + MaxMsgs + MaxInbound

\* JSON.parse: throws on garbage, else the value, whatever the spelling
JSONparse(text) ==
    IF text.form = "garbage" THEN [ok |-> FALSE, value |-> 0]
    ELSE IF text.form = "overflow" THEN [ok |-> TRUE, value |-> text.val + Stride]
    ELSE IF text.form = "nulled" THEN [ok |-> TRUE, value |-> text.val + 2 * Stride]
    ELSE [ok |-> TRUE, value |-> text.val]

\* JSON.stringify: the compact spelling of the value, null for Infinity
JSONstringify(message) ==
    IF message > Stride THEN [val |-> message % Stride, form |-> "nulled"]
    ELSE [val |-> message, form |-> "compact"]

(***************************************************************************)
(* The object's fields as one record, so that methods compose.             *)
(***************************************************************************)
Bridge ==
    [ws |-> ws, wsHeaders |-> wsHeaders, readyState |-> readyState, messageQueue |-> messageQueue,
     reconnectAttempts |-> reconnectAttempts, isConnected |-> isConnected,
     heartbeatTimer |-> heartbeatTimer, heartbeatActive |-> heartbeatActive,
     reconnectTimer |-> reconnectTimer, timerActive |-> timerActive,
     timerDelay |-> timerDelay, rlClosed |-> rlClosed, exited |-> exited,
     exitCode |-> exitCode, hung |-> hung, sent |-> sent, stdout |-> stdout,
     effects |-> <<>>]

\* the fields after a handler returned the record r (bound once, so that the
\* handler is evaluated once per step)
Becomes(r) ==
    \E s \in {r} :
    /\ ws' = s.ws
    /\ wsHeaders' = s.wsHeaders
    /\ readyState' = s.readyState
    /\ messageQueue' = s.messageQueue
    /\ reconnectAttempts' = s.reconnectAttempts
    /\ isConnected' = s.isConnected
    /\ heartbeatTimer' = s.heartbeatTimer
    /\ heartbeatActive' = s.heartbeatActive
    /\ reconnectTimer' = s.reconnectTimer
    /\ timerActive' = s.timerActive
    /\ timerDelay' = s.timerDelay
    /\ rlClosed' = s.rlClosed
    /\ exited' = s.exited
    /\ exitCode' = s.exitCode
    /\ hung' = s.hung
    /\ sent' = s.sent
    /\ stdout' = s.stdout
    /\ effects' = s.effects

Did(s, op, arg) == [s EXCEPT !.effects = Append(@, [op |-> op, arg |-> arg])]

\* this.log(level, message): one entry per call the claims speak of
log(s, what) == Did(s, what, 0)

(***************************************************************************)
(* Methods of MCPWebSocketBridge.                                          *)
(***************************************************************************)
\* Variant of timeout that grows by half the base interval per attempt.
timeoutLinear(attempts) ==
    IF ReconnectInterval * (2 + attempts) >= 2 * MaxReconnectInterval
    THEN MaxReconnectInterval * DelayScale
    ELSE (ReconnectInterval * DelayScale * (2 + attempts)) \div 2

\* Math.min(reconnectInterval * Math.pow(reconnectDecay, attempts), maxReconnectInterval)
timeout(attempts) ==
    IF ReconnectInterval * Pow(DecayNum, attempts) >= MaxReconnectInterval * Pow(DecayDen, attempts)
    THEN MaxReconnectInterval * DelayScale
    ELSE (ReconnectInterval * DelayScale * Pow(DecayNum, attempts)) \div Pow(DecayDen, attempts)

\* Variant of scheduleReconnect that gives up after three retries.
scheduleReconnectMax3(s) ==
    IF s.reconnectTimer \/ s.reconnectAttempts >= 3 THEN s
    ELSE LET s1 == Did(s, "Scheduling reconnect", s.reconnectAttempts + 1)
         IN  [Did(s1, "setTimeout", timeout(s.reconnectAttempts))
                EXCEPT !.reconnectTimer = TRUE, !.timerActive = TRUE,
                       !.timerDelay = timeout(s.reconnectAttempts)]

\* Variant of scheduleReconnect without the test for a pending timer.
scheduleReconnectNoGuard(s) ==
    LET s1 == Did(s, "Scheduling reconnect", s.reconnectAttempts + 1)
    IN  [Did(s1, "setTimeout", timeout(s.reconnectAttempts))
           EXCEPT !.reconnectTimer = TRUE, !.timerActive = TRUE,
                  !.timerDelay = timeout(s.reconnectAttempts)]

\* if (this.reconnectTimer) return; else log and
\* this.reconnectTimer = setTimeout(callback, timeout)
scheduleReconnect(s) ==
    IF s.reconnectTimer THEN s
    ELSE LET s1 == Did(s, "Scheduling reconnect", s.reconnectAttempts + 1)
         IN  [Did(s1, "setTimeout", timeout(s.reconnectAttempts))
                EXCEPT !.reconnectTimer = TRUE, !.timerActive = TRUE,
                       !.timerDelay = timeout(s.reconnectAttempts)]

\* const headers = {}; if (token) headers['Authorization'] = `Bearer ${token}`
headers == IF token # "" THEN {<<"Authorization", "Bearer", token>>} ELSE {}

\* Variant of connect that sends the Authorization header with the attempt of
\* start() only.
connectAuthOnce(s, throws) ==
    LET s1 == [Did(s, "new WebSocket", 0)
                 EXCEPT !.wsHeaders = IF s.reconnectAttempts = 0 THEN headers ELSE {}]
    IN  IF throws THEN scheduleReconnect(log(s1, "Failed to create WebSocket"))
        ELSE [s1 EXCEPT !.ws = TRUE, !.readyState = "CONNECTING"]

\* Variant of connect whose catch only logs.
connectGiveUp(s, throws) ==
    LET s1 == [Did(s, "new WebSocket", 0) EXCEPT !.wsHeaders = headers]
    IN  IF throws THEN log(s1, "Failed to create WebSocket")
        ELSE [s1 EXCEPT !.ws = TRUE, !.readyState = "CONNECTING"]

\* new WebSocket(url, {headers}) and the registration of its handlers; `throws`
\* is whether the constructor throws
connect(s, throws) ==
    LET s1 == [Did(s, "new WebSocket", 0) EXCEPT !.wsHeaders = headers]
    IN  IF throws THEN scheduleReconnect(log(s1, "Failed to create WebSocket"))
        ELSE [s1 EXCEPT !.ws = TRUE, !.readyState = "CONNECTING"]

startHeartbeat(s) ==
    [Did(s, "setInterval", 0) EXCEPT !.heartbeatTimer = TRUE, !.heartbeatActive = @ + 1]

stopHeartbeat(s) ==
    IF s.heartbeatTimer
    THEN [Did(s, "clearInterval", 0) EXCEPT !.heartbeatTimer = FALSE,
                                            !.heartbeatActive = IF @ > 0 THEN @ - 1 ELSE 0]
    ELSE s

\* Variant of sendToWebSocket that does not look at the socket's readyState.
sendToWebSocketAnyState(s, message) ==
    IF s.isConnected /\ s.ws
    THEN [Did(s, "ws.send", message) EXCEPT !.sent = Append(@, JSONstringify(message))]
    ELSE [Did(log(s, "queuing message"), "push", message)
            EXCEPT !.messageQueue = Append(@, message)]

\* Variant of sendToWebSocket that queues only while the bridge is not connected:
\* a message for a connected bridge whose socket is not OPEN is dropped.
sendToWebSocketDrop(s, message) ==
    IF s.isConnected
    THEN IF s.ws /\ s.readyState = "OPEN"
         THEN [Did(s, "ws.send", message) EXCEPT !.sent = Append(@, JSONstringify(message))]
         ELSE log(s, "WebSocket not open")
    ELSE [Did(log(s, "queuing message"), "push", message)
            EXCEPT !.messageQueue = Append(@, message)]

\* Variant of sendToWebSocket that hands a message to an open socket twice.
sendToWebSocketTwice(s, message) ==
    IF s.isConnected /\ s.ws /\ s.readyState = "OPEN"
    THEN [Did(Did(s, "ws.send", message), "ws.send", message)
            EXCEPT !.sent = Append(Append(@, JSONstringify(message)), JSONstringify(message))]
    ELSE [Did(log(s, "queuing message"), "push", message)
            EXCEPT !.messageQueue = Append(@, message)]

sendToWebSocket(s, message) ==
    IF s.isConnected /\ s.ws /\ s.readyState = "OPEN"
    THEN [Did(s, "ws.send", message) EXCEPT !.sent = Append(@, JSONstringify(message))]
    ELSE [Did(log(s, "queuing message"), "push", message)
            EXCEPT !.messageQueue = Append(@, message)]

\* Variant of sendToStdout that writes the line before the lines written so far.
sendToStdoutFirst(s, message) ==
    [Did(s, "console.log", message) EXCEPT !.stdout = <<JSONstringify(message)>> \o @]

sendToStdout(s, message) ==
    [Did(s, "console.log", message) EXCEPT !.stdout = Append(@, JSONstringify(message))]

\* Variant of flushMessageQueue that takes the newest message first (pop for shift).
RECURSIVE flushMessageQueuePop(_)
flushMessageQueuePop(s) ==
    IF Len(s.messageQueue) > 0 /\ s.isConnected
    THEN IF s.ws /\ s.readyState = "OPEN"
         THEN LET n == Len(s.messageQueue)
                  message == s.messageQueue[n]
                  s1 == [s EXCEPT !.messageQueue = SubSeq(@, 1, n - 1)]
              IN  flushMessageQueuePop(sendToWebSocket(log(s1, "Sending queued message"), message))
         ELSE [s EXCEPT !.hung = TRUE]
    ELSE s

\* Variant of flushMessageQueue that sends the head only (if for while).
flushMessageQueueOnce(s) ==
    IF Len(s.messageQueue) > 0 /\ s.isConnected /\ s.ws /\ s.readyState = "OPEN"
    THEN sendToWebSocket(log([s EXCEPT !.messageQueue = Tail(@)], "Sending queued message"),
                         Head(s.messageQueue))
    ELSE s

\* Variant of flushMessageQueue whose loop does not test isConnected.
RECURSIVE flushMessageQueueNoGuard(_)
flushMessageQueueNoGuard(s) ==
    IF Len(s.messageQueue) > 0
    THEN IF s.isConnected /\ s.ws /\ s.readyState = "OPEN"
         THEN LET message == Head(s.messageQueue)
                  s1 == [s EXCEPT !.messageQueue = Tail(@)]
              IN  flushMessageQueueNoGuard(sendToWebSocket(log(s1, "Sending queued message"),
                                                           message))
         ELSE [s EXCEPT !.hung = TRUE]
    ELSE s

\* while (queue.length > 0 && isConnected) { shift; sendToWebSocket }.  When the
\* socket is not OPEN every iteration pushes the shifted message back, the loop
\* condition never changes and the loop never ends: hung.
RECURSIVE flushMessageQueue(_)
flushMessageQueue(s) ==
    IF Len(s.messageQueue) > 0 /\ s.isConnected
    THEN IF s.ws /\ s.readyState = "OPEN"
         THEN LET message == Head(s.messageQueue)
                  s1 == [s EXCEPT !.messageQueue = Tail(@)]
              IN  flushMessageQueue(sendToWebSocket(log(s1, "Sending queued message"), message))
         ELSE [s EXCEPT !.hung = TRUE]
    ELSE s

\* ws.close(): a socket that is connecting or open starts closing
wsClose(s) ==
    [Did(s, "ws.close", 0)
       EXCEPT !.readyState = IF @ \in {"CONNECTING", "OPEN"} THEN "CLOSING" ELSE @]

\* Variant of shutdown that leaves the timers alone.
RECURSIVE shutdownKeepTimers(_)
shutdownKeepTimers(s) ==
    LET s1 == log(s, "Shutting down bridge")
        s4 == IF s1.ws THEN wsClose(s1) ELSE s1
        s5 == IF s4.rlClosed THEN Did(s4, "rl.close", 0)
              ELSE shutdownKeepTimers(log([Did(s4, "rl.close", 0) EXCEPT !.rlClosed = TRUE],
                                          "Stdin closed, shutting down"))
    IN  IF s5.exited THEN s5
        ELSE [Did(s5, "process.exit", ExitStatus) EXCEPT !.exited = TRUE, !.exitCode = ExitStatus]

\* Variant of shutdown that ends the process with status 1.
RECURSIVE shutdownStatus1(_)
shutdownStatus1(s) ==
    LET s1 == log(s, "Shutting down bridge")
        s2 == IF s1.reconnectTimer
              THEN [Did(s1, "clearTimeout", 0) EXCEPT !.timerActive = FALSE]
              ELSE s1
        s3 == stopHeartbeat(s2)
        s4 == IF s3.ws THEN wsClose(s3) ELSE s3
        s5 == IF s4.rlClosed THEN Did(s4, "rl.close", 0)
              ELSE shutdownStatus1(log([Did(s4, "rl.close", 0) EXCEPT !.rlClosed = TRUE],
                                       "Stdin closed, shutting down"))
    IN  IF s5.exited THEN s5
        ELSE [Did(s5, "process.exit", 1) EXCEPT !.exited = TRUE, !.exitCode = 1]

\* Variant of shutdown that hands the queued messages to the socket before it
\* closes it.
RECURSIVE shutdownDeliver(_)
shutdownDeliver(s) ==
    LET s1 == log(s, "Shutting down bridge")
        s2 == IF s1.reconnectTimer
              THEN [Did(s1, "clearTimeout", 0) EXCEPT !.timerActive = FALSE]
              ELSE s1
        s3 == stopHeartbeat(s2)
        q  == s3.messageQueue
        s4 == IF s3.ws
              THEN wsClose(IF Len(q) > 0
                           THEN [Did(s3, "ws.send", Len(q))
                                   EXCEPT !.sent = @ \o [i \in 1..Len(q) |-> JSONstringify(q[i])],
                                          !.messageQueue = <<>>]
                           ELSE s3)
              ELSE s3
        s5 == IF s4.rlClosed THEN Did(s4, "rl.close", 0)
              ELSE shutdownDeliver(log([Did(s4, "rl.close", 0) EXCEPT !.rlClosed = TRUE],
                                       "Stdin closed, shutting down"))
    IN  IF s5.exited THEN s5
        ELSE [Did(s5, "process.exit", ExitStatus) EXCEPT !.exited = TRUE, !.exitCode = ExitStatus]

\* shutdown().  rl.close() on an interface that is not closed yet emits 'close'
\* synchronously, whose handler calls shutdown() again; process.exit(0) ends the
\* process in the innermost call, so an outer call never reaches its own.
RECURSIVE shutdown(_)
shutdown(s) ==
    LET s1 == log(s, "Shutting down bridge")
        s2 == IF s1.reconnectTimer
              THEN [Did(s1, "clearTimeout", 0) EXCEPT !.timerActive = FALSE]
              ELSE s1
        s3 == stopHeartbeat(s2)
        s4 == IF s3.ws THEN wsClose(s3) ELSE s3
        s5 == IF s4.rlClosed THEN Did(s4, "rl.close", 0)
              ELSE shutdown(log([Did(s4, "rl.close", 0) EXCEPT !.rlClosed = TRUE],
                                "Stdin closed, shutting down"))
    IN  IF s5.exited THEN s5
        ELSE [Did(s5, "process.exit", ExitStatus) EXCEPT !.exited = TRUE, !.exitCode = ExitStatus]

(***************************************************************************)
(* Handlers: one action per turn of the event loop.                        *)
(***************************************************************************)
Running == started /\ ~exited /\ ~hung

\* the tokens a bridge is constructed with: none, or the one of the tests
Tokens == {"", "test-token"}

Init ==
    /\ started = FALSE
    /\ token \in Tokens
    /\ ws = FALSE
    /\ wsHeaders = {}
    /\ readyState = "NONE"
    /\ messageQueue = <<>>
    /\ reconnectAttempts = 0
    /\ isConnected = FALSE
    /\ heartbeatTimer = FALSE
    /\ heartbeatActive = 0
    /\ reconnectTimer = FALSE
    /\ timerActive = FALSE
    /\ timerDelay = 0
    /\ rlClosed = FALSE
    /\ exited = FALSE
    /\ exitCode = -1
    /\ hung = FALSE
    /\ sent = <<>>
    /\ stdout = <<>>
    /\ effects = <<>>
    /\ lastEvent = "constructed"
    /\ stdinGood = 0
    /\ stdinBad = 0
    /\ inbound = 0
    /\ decodedLines = <<>>
    /\ decodedFrames = <<>>
    /\ failedAttempts = 0
    /\ everConnected = FALSE
    /\ priorRetries = 0

\* whether the environment may still refuse a connection attempt
MayRefuse == reconnectAttempts < MaxAttempts

\* start(): setupStdioHandler(); connect()
Start ==
    /\ ~started /\ ~exited
    /\ started' = TRUE
    /\ lastEvent' = "start"
    /\ \E throws \in {FALSE} \cup {t \in {TRUE} : MayRefuse} :
          /\ Becomes(connect(log(Bridge, "Starting MCP WebSocket Bridge"), throws))
          /\ failedAttempts' = IF throws THEN failedAttempts + 1 ELSE failedAttempts
    /\ UNCHANGED <<token, stdinGood, stdinBad, inbound, decodedLines, decodedFrames,
                   everConnected, priorRetries>>

\* Variant of the 'line' handler that forwards a line it could not parse.
onLineForwardBad(s, line) ==
    LET r == JSONparse(line)
    IN  IF r.ok THEN sendToWebSocket(log(s, "Received from stdin"), r.value)
        ELSE sendToWebSocket(log(s, "Failed to parse stdin message"), r.value)

\* Variant of the 'line' handler that connects at once when its message had to
\* wait for a connection.
onLineReconnect(s, line) ==
    LET r == JSONparse(line)
    IN  IF r.ok
        THEN LET s1 == sendToWebSocket(log(s, "Received from stdin"), r.value)
             IN  IF s1.isConnected THEN s1 ELSE connect(s1, FALSE)
        ELSE log(s, "Failed to parse stdin message")

\* rl.on('line'): try { sendToWebSocket(JSON.parse(line)) } catch { log }
onLine(s, line) ==
    LET r == JSONparse(line)
    IN  IF r.ok THEN sendToWebSocket(log(s, "Received from stdin"), r.value)
        ELSE log(s, "Failed to parse stdin message")

\* the next line of stdin, well-formed (in either spelling) or not
StdinLine ==
    /\ Running /\ ~rlClosed
    /\ \E line \in {t \in Texts(MaxMsgs) :
                      \/ t.form = "garbage" /\ stdinBad < MaxBad
                      \/ t.form # "garbage" /\ t.val = stdinGood + 1} :
          LET r == JSONparse(line)
          IN  /\ Becomes(onLine(Bridge, line))
              /\ stdinGood' = IF r.ok THEN stdinGood + 1 ELSE stdinGood
              /\ stdinBad' = IF r.ok THEN stdinBad ELSE stdinBad + 1
              /\ decodedLines' = IF r.ok THEN Append(decodedLines, r.value) ELSE decodedLines
              /\ lastEvent' = IF r.ok THEN "line" ELSE "badline"
    /\ UNCHANGED <<started, token, inbound, decodedFrames, failedAttempts, everConnected, priorRetries>>

\* the next line of stdin is well-formed and holds a number beyond the range of
\* a double
StdinOverflowLine ==
    /\ Running /\ ~rlClosed
    /\ \E line \in {t \in OverflowTexts(MaxMsgs) : t.val = stdinGood + 1} :
          /\ Becomes(onLine(Bridge, line))
          /\ decodedLines' = Append(decodedLines, JSONparse(line).value)
    /\ stdinGood' = stdinGood + 1
    /\ lastEvent' = "line"
    /\ UNCHANGED <<started, token, stdinBad, inbound, decodedFrames, failedAttempts, everConnected,
                   priorRetries>>

\* rl.on('close') when stdin ends: readline has closed the interface itself
StdinClose ==
    /\ Running /\ ~rlClosed
    /\ Becomes(shutdown(log([Bridge EXCEPT !.rlClosed = TRUE], "Stdin closed, shutting down")))
    /\ lastEvent' = "stdinClose"
    /\ UNCHANGED <<started, token, historyVars>>

\* process.on('SIGINT') and process.on('SIGTERM')
Signal ==
    /\ Running
    /\ \E sig \in {"SIGINT", "SIGTERM"} :
          /\ Becomes(shutdown(log(Bridge, sig)))
          /\ lastEvent' = sig
    /\ UNCHANGED <<started, token, historyVars>>

\* Variant of the 'open' handler that keeps the attempt counter.
onOpenKeepAttempts(s) ==
    LET s1 == [log(s, "WebSocket connected") EXCEPT !.isConnected = TRUE]
    IN  flushMessageQueue(startHeartbeat(s1))

\* Variant of the 'open' handler that does not drain the queue.
onOpenNoDrain(s) ==
    startHeartbeat([log(s, "WebSocket connected") EXCEPT !.isConnected = TRUE, !.reconnectAttempts = 0])

\* ws.on('open'): isConnected = true; reconnectAttempts = 0; startHeartbeat();
\* flushMessageQueue()
onOpen(s) ==
    LET s1 == [log(s, "WebSocket connected") EXCEPT !.isConnected = TRUE, !.reconnectAttempts = 0]
    IN  flushMessageQueue(startHeartbeat(s1))

\* the handshake of the connecting socket succeeds
WsOpen ==
    /\ Running /\ ws /\ readyState = "CONNECTING"
    /\ Becomes(onOpen([Bridge EXCEPT !.readyState = "OPEN"]))
    /\ lastEvent' = "open"
    /\ failedAttempts' = 0
    /\ everConnected' = TRUE
    /\ priorRetries' = reconnectAttempts
    /\ UNCHANGED <<started, token, stdinGood, stdinBad, inbound, decodedLines, decodedFrames>>

\* Variant of the 'close' handler that schedules no reconnect.
onCloseNoReconnect(s) ==
    stopHeartbeat([log(s, "WebSocket closed") EXCEPT !.isConnected = FALSE])

\* Variant of the 'close' handler that leaves the heartbeat running.
onCloseKeepHeartbeat(s) ==
    scheduleReconnect([log(s, "WebSocket closed") EXCEPT !.isConnected = FALSE])

\* Variant of the 'close' handler that empties the queue.
onCloseClearQueue(s) ==
    scheduleReconnect(stopHeartbeat([log(s, "WebSocket closed")
                                       EXCEPT !.isConnected = FALSE, !.messageQueue = <<>>]))

\* Variant of the 'close' handler that leaves isConnected set.
onCloseStayConnected(s) ==
    scheduleReconnect(stopHeartbeat(log(s, "WebSocket closed")))

\* ws.on('close'): isConnected = false; stopHeartbeat(); scheduleReconnect()
onClose(s) ==
    scheduleReconnect(stopHeartbeat([log(s, "WebSocket closed") EXCEPT !.isConnected = FALSE]))

\* Variant of the 'error' handler that schedules a reconnect itself.
onErrorReconnect(s) == scheduleReconnect(log(s, "WebSocket error"))

\* ws.on('error'): a log line
onError(s) == log(s, "WebSocket error")

\* A connection attempt fails (refused, handshake rejected): the socket emits
\* 'error' and then 'close' in one turn
WsConnectFail ==
    /\ Running /\ ws /\ readyState = "CONNECTING" /\ MayRefuse
    /\ Becomes(onClose([onError([Bridge EXCEPT !.readyState = "CLOSING"])
                          EXCEPT !.readyState = "CLOSED"]))
    /\ lastEvent' = "connectFail"
    /\ failedAttempts' = failedAttempts + 1
    /\ UNCHANGED <<started, token, stdinGood, stdinBad, inbound, decodedLines, decodedFrames,
                   everConnected, priorRetries>>

\* The peer starts the closing handshake: the socket leaves OPEN, no handler runs
WsPeerClosing ==
    /\ Running /\ ws /\ readyState = "OPEN"
    /\ readyState' = "CLOSING"
    /\ effects' = <<>>
    /\ lastEvent' = "peerClosing"
    /\ UNCHANGED <<started, token, ws, wsHeaders, messageQueue, reconnectAttempts, isConnected,
                   heartbeatTimer, heartbeatActive, reconnectTimer, timerActive,
                   timerDelay, rlClosed, exited, exitCode, hung, sent, stdout, historyVars>>

\* ws.on('error') on an established connection: the socket starts closing
WsError ==
    /\ Running /\ ws /\ readyState \in {"OPEN", "CLOSING"}
    /\ Becomes(onError([Bridge EXCEPT !.readyState = "CLOSING"]))
    /\ lastEvent' = "error"
    /\ UNCHANGED <<started, token, historyVars>>

\* ws.on('close') of an established connection
WsClose ==
    /\ Running /\ ws /\ readyState \in {"OPEN", "CLOSING"}
    /\ Becomes(onClose([Bridge EXCEPT !.readyState = "CLOSED"]))
    /\ lastEvent' = "close"
    /\ UNCHANGED <<started, token, historyVars>>

\* Variant of the 'message' handler that closes the socket on a frame it could
\* not parse.
onMessageFatal(s, data) ==
    LET r == JSONparse(data)
    IN  IF r.ok THEN sendToStdout(log(s, "Received from WebSocket"), r.value)
        ELSE wsClose(log(s, "Failed to parse WebSocket message"))

\* ws.on('message'): try { sendToStdout(JSON.parse(data)) } catch { log }
onMessage(s, data) ==
    LET r == JSONparse(data)
    IN  IF r.ok THEN sendToStdout(log(s, "Received from WebSocket"), r.value)
        ELSE log(s, "Failed to parse WebSocket message")

\* the next frame of the server, well-formed or not
WsMessage ==
    /\ Running /\ ws /\ readyState = "OPEN" /\ inbound < MaxInbound
    /\ \E data \in {t \in Texts(MaxInbound) : t.form = "garbage" \/ t.val = inbound + 1} :
          LET r == JSONparse(data)
          IN  /\ Becomes(onMessage(Bridge, data))
              /\ decodedFrames' = IF r.ok THEN Append(decodedFrames, r.value) ELSE decodedFrames
              /\ lastEvent' = IF r.ok THEN "message" ELSE "badmessage"
    /\ inbound' = inbound + 1
    /\ UNCHANGED <<started, token, stdinGood, stdinBad, decodedLines, failedAttempts, everConnected,
                   priorRetries>>

\* the next frame of the server is well-formed and holds a number beyond the
\* range of a double
WsOverflowMessage ==
    /\ Running /\ ws /\ readyState = "OPEN" /\ inbound < MaxInbound
    /\ \E data \in {t \in OverflowTexts(MaxInbound) : t.val = inbound + 1} :
          /\ Becomes(onMessage(Bridge, data))
          /\ decodedFrames' = Append(decodedFrames, JSONparse(data).value)
    /\ inbound' = inbound + 1
    /\ lastEvent' = "message"
    /\ UNCHANGED <<started, token, stdinGood, stdinBad, decodedLines, failedAttempts, everConnected,
                   priorRetries>>

\* ws.on('pong')
WsPong ==
    /\ Running /\ ws /\ readyState = "OPEN"
    /\ Becomes(log(Bridge, "Received pong"))
    /\ lastEvent' = "pong"
    /\ UNCHANGED <<started, token, historyVars>>

\* Variant of the heartbeat callback that tests for the wrong readyState.
onHeartbeatConnecting(s) ==
    IF s.ws /\ s.readyState = "CONNECTING" THEN Did(log(s, "Sending ping"), "ws.ping", 0) ELSE s

\* Variant of the heartbeat callback that pings whatever the socket's readyState.
onHeartbeatAnyState(s) ==
    IF s.ws THEN Did(log(s, "Sending ping"), "ws.ping", 0) ELSE s

\* Variant of the heartbeat callback that closes the socket after the ping, as
\* if a pong were overdue.
onHeartbeatTimeout(s) ==
    IF s.ws /\ s.readyState = "OPEN"
    THEN wsClose(Did(log(s, "Sending ping"), "ws.ping", 0))
    ELSE s

\* the setInterval callback: if (ws && ws.readyState === OPEN) ws.ping()
onHeartbeat(s) ==
    IF s.ws /\ s.readyState = "OPEN" THEN Did(log(s, "Sending ping"), "ws.ping", 0) ELSE s

\* a tick of a heartbeat interval
HeartbeatTick ==
    /\ Running /\ heartbeatActive > 0
    /\ Becomes(onHeartbeat(Bridge))
    /\ lastEvent' = "heartbeat"
    /\ UNCHANGED <<started, token, historyVars>>

\* Variant of the retry callback that does not count the attempt.
onReconnectTimerNoCount(s, throws) ==
    connect([s EXCEPT !.reconnectTimer = FALSE, !.timerActive = FALSE], throws)

\* the setTimeout callback: reconnectTimer = null; reconnectAttempts++; connect()
onReconnectTimer(s, throws) ==
    connect([s EXCEPT !.reconnectTimer = FALSE, !.timerActive = FALSE,
                      !.reconnectAttempts = @ + 1], throws)

\* the retry timer fires
ReconnectTimerFire ==
    /\ Running /\ timerActive
    /\ \E throws \in {FALSE} \cup {t \in {TRUE} : reconnectAttempts + 1 < MaxAttempts} :
          /\ Becomes(onReconnectTimer(Bridge, throws))
          /\ failedAttempts' = IF throws THEN failedAttempts + 1 ELSE failedAttempts
    /\ lastEvent' = "retry"
    /\ priorRetries' = 0
    /\ UNCHANGED <<started, token, stdinGood, stdinBad, inbound, decodedLines, decodedFrames,
                   everConnected>>

Next ==
    \/ Start
    \/ StdinLine
    \/ StdinClose
    \/ Signal
    \/ WsOpen
    \/ WsConnectFail
    \/ WsPeerClosing
    \/ WsError
    \/ WsClose
    \/ WsMessage
    \/ WsPong
    \/ HeartbeatTick
    \/ ReconnectTimerFire

Spec == Init /\ [][Next]_vars

\* the peers also send documents with numbers beyond the range of a double
WideNext ==
    \/ Next
    \/ StdinOverflowLine
    \/ WsOverflowMessage

WideSpec == Init /\ [][WideNext]_vars

\* flushMessageQueue() called on the running bridge by the program that embeds
\* it (the class is the module's export and the method is public)
Drain ==
    /\ Running
    /\ Becomes(flushMessageQueue(Bridge))
    /\ lastEvent' = "drain"
    /\ UNCHANGED <<started, token, historyVars>>

\* the drain may be invoked in every state the bridge reaches
DrainNext ==
    \/ Next
    \/ Drain

DrainSpec == Init /\ [][DrainNext]_vars

\* scheduleReconnect() called on the running bridge, by the program that embeds
\* it, while a retry is pending
CallScheduleReconnect ==
    /\ Running /\ reconnectTimer /\ timerActive
    /\ Becomes(scheduleReconnect(Bridge))
    /\ lastEvent' = "scheduleReconnect"
    /\ UNCHANGED <<started, token, historyVars>>

RescheduleNext ==
    \/ Next
    \/ CallScheduleReconnect

RescheduleSpec == Init /\ [][RescheduleNext]_vars

\* startHeartbeat() called on the running bridge, by the program that embeds
\* it, while the heartbeat is armed
CallStartHeartbeat ==
    /\ Running /\ heartbeatTimer /\ heartbeatActive < MaxHeartbeats
    /\ Becomes(startHeartbeat(Bridge))
    /\ lastEvent' = "startHeartbeat"
    /\ UNCHANGED <<started, token, historyVars>>

RearmNext ==
    \/ Next
    \/ CallStartHeartbeat

RearmSpec == Init /\ [][RearmNext]_vars

\* The event loop runs a due timer, a connecting socket opens or fails, and a
\* closing socket ends with its 'close' event.
Fairness ==
    /\ WF_vars(Start)
    /\ WF_vars(ReconnectTimerFire)
    /\ WF_vars(WsOpen \/ WsConnectFail)
    /\ WF_vars(WsClose /\ readyState = "CLOSING")

FairSpec == Spec /\ Fairness

\* The event loop runs the callback of an armed setInterval every interval.
PingSpec == Spec /\ WF_vars(HeartbeatTick)

(***************************************************************************)
(* Helpers of the properties.                                              *)
(***************************************************************************)
\* the values of a sequence of texts
Values(texts) == [i \in 1..Len(texts) |-> JSONparse(texts[i]).value]

\* the compact texts of a sequence of values
Stringified(messages) == [i \in 1..Len(messages) |-> JSONstringify(messages[i])]

Occurrences(seq, x) == Cardinality({i \in 1..Len(seq) : seq[i] = x})

\* how often the last turn did `op`
Count(op) == Cardinality({i \in 1..Len(effects) : effects[i].op = op})

DidOp(op) == Count(op) > 0

(***************************************************************************)
(* C1..C10                                                                 *)
(***************************************************************************)
\* C1: the texts handed to ws.send, over all sockets, are well-formed messages
\* read from stdin, in the order they were read and each at most once (the k-th
\* message read carries k, so: the values sent are strictly increasing).
C1_SendOrder ==
    /\ \A i \in 1..Len(sent) : JSONparse(sent[i]).ok /\ Values(sent)[i] \in 1..stdinGood
    /\ \A i, j \in 1..Len(sent) : i < j => Values(sent)[i] < Values(sent)[j]

\* a message sent directly, then two sent from the queue by a later socket
C1_Witness ==
    /\ lastEvent = "open" /\ priorRetries >= 1
    /\ Len(sent) = 3 /\ Count("ws.send") = 2

\* C2: the turn of the 'open' event sends the queued messages m1..mk in that
\* order and leaves the queue empty.
C2_FlushOnOpen ==
    [][(~isConnected /\ isConnected')
         => /\ sent' = sent \o Stringified(messageQueue)
            /\ messageQueue' = <<>>]_vars

\* three messages queued while not connected were sent by the 'open' turn
C2_Witness ==
    /\ lastEvent = "open" /\ Count("ws.send") = 3
    /\ Values(sent) = <<1, 2, 3>> /\ messageQueue = <<>>

\* C3: under Fairness a queued message is eventually sent, unless the bridge is
\* shut down first (the server accepts an attempt after at most MaxAttempts
\* refusals).
C3_QueuedEventuallySent ==
    \A m \in 1..MaxMsgs :
        (\E i \in 1..Len(messageQueue) : messageQueue[i] = m)
            ~> (exited \/ \E i \in 1..Len(sent) : Values(sent)[i] = m)

\* a message queued while waiting for a retry was sent by a later socket
C3_Witness ==
    /\ lastEvent = "open" /\ priorRetries >= 2 /\ everConnected
    /\ DidOp("Sending queued message") /\ Len(sent) >= 2

\* min(1000 * 1.5^n, 30000) in 1/DelayScale ms, written out: 1000, 1500, 2250,
\* 3375, 5062.5, 7593.75, 11390.625, 17085.9375, 25628.90625, then 30000
ExpectedDelay(n) ==
    CASE n = 0 -> 32000
      [] n = 1 -> 48000
      [] n = 2 -> 72000
      [] n = 3 -> 108000
      [] n = 4 -> 162000
      [] n = 5 -> 243000
      [] n = 6 -> 364500
      [] n = 7 -> 546750
      [] n = 8 -> 820125
      [] OTHER -> 960000

\* the retries made since the last successful connection, or since start():
\* the failed attempts, less the first attempt of start() while none has succeeded
RetriesSinceSuccess == IF everConnected THEN failedAttempts ELSE failedAttempts - 1

\* C4 (as stated): the pending retry's delay is min(1000 * 1.5^n, 30000) for n the
\* failed connection attempts since the last successful connection.
C4_AsStated == (Running /\ timerActive) => timerDelay = ExpectedDelay(failedAttempts)

\* C4: (amended) the pending retry's delay is min(1000 * 1.5^n, 30000) for n the
\* retries made since the last successful connection or since start() (the
\* attempt of start() itself is not counted); the delays are non-decreasing in
\* n, never above 30000, and stay at 30000 once they reach it.
C4_Backoff ==
    /\ (Running /\ timerActive) => timerDelay = ExpectedDelay(RetriesSinceSuccess)
    /\ \A n \in 0..MaxAttempts :
          /\ timeout(n) <= timeout(n + 1)
          /\ timeout(n) <= 30000 * DelayScale
          /\ timeout(n) = 30000 * DelayScale => timeout(n + 1) = 30000 * DelayScale

\* a retry is pending at the clamp after a retry that was already at the clamp
C4_Witness ==
    /\ Running /\ timerActive /\ RetriesSinceSuccess = 10
    /\ timerDelay = 30000 * DelayScale /\ timeout(9) = timerDelay /\ timeout(8) < timerDelay

\* C5: the retry scheduled when an established connection closes uses attempt
\* number 0: its delay is the base interval and it is logged as attempt 1.
C5_ResetOnOpen ==
    [][(isConnected /\ ~isConnected' /\ ~exited')
         => /\ timerActive' /\ timerDelay' = ReconnectInterval * DelayScale
            /\ reconnectAttempts' = 0
            /\ \E i \in 1..Len(effects') : effects'[i] = [op |-> "Scheduling reconnect", arg |-> 1]]_vars

\* a connection reached after three retries closed, and its retry waits 1000 ms
C5_Witness ==
    /\ lastEvent = "close" /\ priorRetries >= 3
    /\ timerActive /\ timerDelay = 1000 * DelayScale

\* C6: while the bridge runs and is not connected, a retry is pending or an
\* attempt is in flight, and under Fairness every pending retry leads to a new
\* connection attempt (or to shutdown).
C6_NeverGivesUp ==
    /\ []((Running /\ ~isConnected) => (timerActive \/ readyState = "CONNECTING"))
    /\ (Running /\ timerActive) ~> (exited \/ (lastEvent = "retry" /\ DidOp("new WebSocket")))

\* the tenth retry in a row is pending, none having succeeded
C6_Witness ==
    Running /\ ~everConnected /\ timerActive /\ reconnectAttempts = MaxAttempts - 1

\* C7: the turn that runs shutdown() leaves no retry timer and no heartbeat
\* timer pending and has called close() on the socket if there is one, without
\* connecting, pinging or scheduling; and no turn runs after it.
C7_Shutdown ==
    [][/\ ~exited
       /\ exited' => /\ ~timerActive' /\ ~heartbeatTimer' /\ heartbeatActive' = 0
                     /\ ws => (ws' /\ readyState' \in {"CLOSING", "CLOSED"})
                     /\ ws => \E i \in 1..Len(effects') : effects'[i].op = "ws.close"
                     /\ \A i \in 1..Len(effects') :
                           effects'[i].op \notin {"new WebSocket", "ws.ping", "setTimeout",
                                                  "setInterval", "Scheduling reconnect"}]_vars

\* shutdown with a retry pending: the timer was cleared, the old socket closed
C7_Witness ==
    /\ exited /\ DidOp("clearTimeout") /\ DidOp("ws.close")
    /\ reconnectTimer /\ ~timerActive

\* C8: a second shutdown() during the first does nothing: the turn that runs
\* shutdown() logs 'Shutting down bridge' once, clears the
\* retry timer at most once and closes the socket at most once.
C8_ShutdownOnce ==
    exited => /\ Count("Shutting down bridge") = 1
              /\ Count("clearTimeout") <= 1
              /\ Count("ws.close") <= 1

\* C9: while the bridge runs, SIGINT, SIGTERM and the end of stdin are each
\* handled, and the turn that handles one runs shutdown() and ends the process
\* with status 0.
C9_SignalsShutDown ==
    /\ Running => (ENABLED Signal /\ ENABLED StdinClose)
    /\ lastEvent \in {"SIGINT", "SIGTERM", "stdinClose"}
          => /\ exited /\ exitCode = 0
             /\ DidOp("Shutting down bridge")
             /\ effects[Len(effects)] = [op |-> "process.exit", arg |-> 0]
             /\ DidOp("rl.close") /\ rlClosed

\* SIGTERM while connected ended the process
C9_Witness ==
    lastEvent = "SIGTERM" /\ exited /\ isConnected /\ exitCode = 0

\* C10: the turn of an unparsable stdin line logs the failure once and changes
\* nothing else; the turn of a well-formed line relays its message exactly
\* once: sent directly when connected and open, else queued once.
C10_BadLineDropped ==
    [][/\ stdinBad' # stdinBad
          => /\ effects' = <<[op |-> "Failed to parse stdin message", arg |-> 0]>>
             /\ UNCHANGED <<ws, readyState, messageQueue, reconnectAttempts, isConnected,
                            heartbeatTimer, heartbeatActive, reconnectTimer, timerActive,
                            timerDelay, rlClosed, exited, exitCode, hung, sent, stdout>>
       /\ stdinGood' # stdinGood
          => /\ Occurrences(Values(sent') \o messageQueue', stdinGood') = 1
             /\ (isConnected /\ readyState = "OPEN")
                   => (sent' = Append(sent, JSONstringify(stdinGood')) /\ UNCHANGED messageQueue)
             /\ ~exited']_vars

\* one unparsable line, then one well-formed line: one message sent
C10_Witness ==
    /\ lastEvent = "line" /\ stdinBad = 1 /\ stdinGood = 1
    /\ Values(sent) = <<1>> /\ messageQueue = <<>> /\ ~exited

(***************************************************************************)
(* C11..C20                                                                *)
(***************************************************************************)
\* C11: the turn of an unparsable frame logs the failure once and changes
\* nothing else: nothing is written to stdout, the bridge stays connected on
\* the same open socket and no retry is scheduled; a well-formed frame that
\* arrives after an unparsable one is still written to stdout.
C11_BadFrameDropped ==
    [][/\ (inbound' # inbound /\ lastEvent' = "badmessage")
          => /\ effects' = <<[op |-> "Failed to parse WebSocket message", arg |-> 0]>>
             /\ UNCHANGED <<ws, readyState, messageQueue, reconnectAttempts, isConnected,
                            heartbeatTimer, heartbeatActive, reconnectTimer, timerActive,
                            timerDelay, rlClosed, exited, exitCode, hung, sent, stdout>>
             /\ isConnected' /\ readyState' = "OPEN" /\ ~timerActive'
       /\ (inbound' # inbound /\ lastEvent' = "message" /\ Len(decodedFrames) < inbound)
          => stdout' = Append(stdout, JSONstringify(inbound'))]_vars

\* an unparsable frame, then a well-formed one that reached stdout
C11_Witness ==
    /\ lastEvent = "message" /\ inbound = 2 /\ decodedFrames = <<2>>
    /\ Values(stdout) = <<2>> /\ isConnected /\ readyState = "OPEN"

\* C12: the turn of the 'open' event emits 'connected', the turn of the 'close'
\* of an established connection emits 'disconnected', and the turn of a
\* socket 'error' emits 'error'.
C12_Notifications ==
    /\ lastEvent = "open" => DidOp("emit connected")
    /\ lastEvent = "close" => DidOp("emit disconnected")
    /\ lastEvent \in {"error", "connectFail"} => DidOp("emit error")

\* C13: every text handed to ws.send decodes to a value that was decoded from
\* a stdin line, every line written to stdout decodes to a value that was
\* decoded from a frame, and no more messages leave the bridge than entered
\* it on the other side.
C13_Transparent ==
    /\ \A i \in 1..Len(sent) :
          /\ JSONparse(sent[i]).ok
          /\ \E j \in 1..Len(decodedLines) : decodedLines[j] = JSONparse(sent[i]).value
    /\ \A i \in 1..Len(stdout) :
          /\ JSONparse(stdout[i]).ok
          /\ \E j \in 1..Len(decodedFrames) : decodedFrames[j] = JSONparse(stdout[i]).value
    /\ Len(sent) + Len(messageQueue) <= Len(decodedLines)
    /\ Len(stdout) <= Len(decodedFrames)

\* C14: the lines on stdout are the well-formed frames received, in arrival
\* order; the turn of a well-formed frame writes its message as one line, and
\* no turn of a frame touches the queue or sends anything to the socket.
C14_InboundRelayed ==
    /\ [](stdout = Stringified(decodedFrames))
    /\ [][inbound' # inbound
            => /\ UNCHANGED <<messageQueue, sent>>
               /\ lastEvent' = "message"
                     => /\ Len(stdout') = Len(stdout) + 1
                        /\ Count("console.log")' = 1 /\ ~DidOp("push")']_vars

\* two well-formed frames reached stdout in the order they arrived
C14_Witness ==
    /\ lastEvent = "message" /\ inbound = 2 /\ Values(stdout) = <<1, 2>>
    /\ Count("console.log") = 1 /\ messageQueue = <<>>

\* C15: every turn that makes a connection attempt (start() and every retry)
\* constructs one socket, with the header Authorization: Bearer <token> when a
\* token is configured and with no header when none is.
C15_BearerOnEveryAttempt ==
    [][lastEvent' \in {"start", "retry"}
         => /\ Count("new WebSocket")' = 1
            /\ token # "" => wsHeaders' = {<<"Authorization", "Bearer", token>>}
            /\ token = "" => wsHeaders' = {}]_vars

\* with a token, the second retry after an established connection was lost
C15_Witness ==
    /\ token = "test-token" /\ lastEvent = "retry" /\ everConnected /\ reconnectAttempts = 2
    /\ wsHeaders = {<<"Authorization", "Bearer", "test-token">>}

\* C16: while the bridge is connected exactly one heartbeat interval is armed;
\* every tick of it that finds the bridge connected and the socket OPEN sends
\* one ping; and under fairness of the interval a connected bridge with an
\* open socket gets to a tick that sends a ping, unless the connection or the
\* process ends first.
C16_Heartbeat ==
    /\ []((Running /\ isConnected) => (heartbeatTimer /\ heartbeatActive = 1))
    /\ [][(lastEvent' = "heartbeat" /\ isConnected /\ readyState = "OPEN")
            => (Count("ws.ping")' = 1 /\ UNCHANGED <<isConnected, readyState, sent, stdout>>)]_vars
    /\ (Running /\ isConnected /\ readyState = "OPEN")
          ~> \/ lastEvent = "heartbeat" /\ DidOp("ws.ping")
             \/ ~(Running /\ isConnected /\ readyState = "OPEN")

\* a ping on a connection that was reached by a retry
C16_Witness ==
    /\ lastEvent = "heartbeat" /\ DidOp("ws.ping") /\ isConnected /\ readyState = "OPEN"
    /\ priorRetries >= 1 /\ heartbeatActive = 1

\* C17: the turn of a well-formed stdin line does exactly one of two things
\* with its message: when the bridge is connected and the socket OPEN it hands
\* it to ws.send once and leaves the queue as it is; otherwise it appends it
\* to the tail of the queue and sends nothing.
C17_SendOrQueue ==
    [][stdinGood' # stdinGood
         => LET message == decodedLines'[Len(decodedLines')]
            IN  IF isConnected /\ ws /\ readyState = "OPEN"
                THEN /\ sent' = Append(sent, JSONstringify(message))
                     /\ UNCHANGED messageQueue
                     /\ Count("ws.send")' = 1 /\ ~DidOp("push")'
                ELSE /\ messageQueue' = Append(messageQueue, message)
                     /\ UNCHANGED sent
                     /\ Count("push")' = 1 /\ ~DidOp("ws.send")']_vars

\* the second line was sent directly, after the first
C17_Witness ==
    /\ lastEvent = "line" /\ Count("ws.send") = 1 /\ ~DidOp("push")
    /\ Values(sent) = <<1, 2>> /\ messageQueue = <<>> /\ isConnected

\* C18: a message submitted while the bridge is connected but its socket is no
\* longer OPEN (the write cannot be made) is appended to the queue; and the
\* queue grows in no other turn than that of a stdin line read while the
\* bridge is not connected or its socket is not OPEN.
C18_QueuedOnlyWhenUnsendable ==
    [][/\ (stdinGood' # stdinGood /\ isConnected /\ readyState # "OPEN")
          => /\ messageQueue' = Append(messageQueue, decodedLines'[Len(decodedLines')])
             /\ UNCHANGED sent
       /\ (DidOp("push")' \/ Len(messageQueue') > Len(messageQueue))
          => /\ stdinGood' # stdinGood
             /\ ~isConnected \/ readyState # "OPEN"]_vars

\* a line read while the connected bridge's socket was closing was queued
C18_Witness ==
    /\ lastEvent = "line" /\ isConnected /\ readyState = "CLOSING"
    /\ DidOp("push") /\ Len(messageQueue) >= 1 /\ Len(sent) >= 1

\* C19: a drain invoked while the bridge is connected, its socket no longer
\* OPEN and the queue not empty returns, and leaves the queue as it was, in
\* the same order.
C19_FailedDrainKeepsQueue ==
    [][(lastEvent' = "drain" /\ isConnected /\ readyState # "OPEN" /\ messageQueue # <<>>)
         => (~hung' /\ messageQueue' = messageQueue /\ UNCHANGED sent)]_vars

\* C20: every invocation of the drain returns, whatever state it is invoked in.
C20_DrainTerminates == lastEvent = "drain" => ~hung

(***************************************************************************)
(* C21..C30                                                                *)
(***************************************************************************)
\* C21: a drain invoked right after a drain, or with an empty queue, or while
\* the bridge is not connected, does nothing: it sends nothing and leaves the
\* queue and every other field as they were; and no text is handed to ws.send
\* twice.
C21_DrainIdempotent ==
    /\ [](\A i, j \in 1..Len(sent) : i < j => sent[i] # sent[j])
    /\ [][(/\ lastEvent' = "drain"
           /\ messageQueue = <<>> \/ ~isConnected \/ lastEvent \in {"open", "drain"})
            => /\ effects' = <<>>
               /\ UNCHANGED <<ws, wsHeaders, readyState, messageQueue, reconnectAttempts,
                              isConnected, heartbeatTimer, heartbeatActive, reconnectTimer,
                              timerActive, timerDelay, rlClosed, exited, exitCode, hung, sent,
                              stdout>>]_vars

\* a drain right after the drain of the 'open' turn, which had sent three
\* queued messages
C21_Witness ==
    /\ lastEvent = "drain" /\ ~hung /\ isConnected /\ readyState = "OPEN"
    /\ Values(sent) = <<1, 2, 3>> /\ messageQueue = <<>> /\ effects = <<>>
    /\ priorRetries >= 1

\* C22: a pending retry timer always has its handle; every turn creates at
\* most one timer, and only when none is pending (the timer that fires is no
\* longer pending in its own callback); and scheduleReconnect() called while
\* a retry is pending does nothing: no timer is created, and the pending timer,
\* its delay and the attempt counter are unchanged.
C22_OneReconnectTimer ==
    /\ [](timerActive => reconnectTimer)
    /\ [][DidOp("setTimeout")'
            => /\ Count("setTimeout")' = 1
               /\ ~timerActive \/ lastEvent' = "retry"]_vars
    /\ [][lastEvent' = "scheduleReconnect"
            => /\ effects' = <<>>
               /\ UNCHANGED <<reconnectTimer, timerActive, timerDelay, reconnectAttempts,
                              isConnected, ws, readyState, messageQueue>>]_vars

\* scheduleReconnect() called while the third retry was pending
C22_Witness ==
    /\ lastEvent = "scheduleReconnect" /\ Running /\ timerActive /\ reconnectTimer
    /\ reconnectAttempts = 2 /\ timerDelay = timeout(2) /\ effects = <<>>

\* C23: the attempt counter is never negative; the turn of every retry adds
\* one to it, the 'open' turn sets it to 0 and no other turn changes it; every
\* retry is announced with the number counter + 1, and while a retry is
\* pending the counter is the number of retries made since the last
\* successful connection (or since start()), so the retries of an unbroken
\* run of failures are numbered 1, 2, 3, ...
C23_AttemptCounter ==
    /\ [](reconnectAttempts >= 0)
    /\ []((Running /\ timerActive) => reconnectAttempts = RetriesSinceSuccess)
    /\ [][/\ lastEvent' = "retry" => reconnectAttempts' = reconnectAttempts + 1
          /\ reconnectAttempts' # reconnectAttempts
                => \/ lastEvent' = "retry" /\ reconnectAttempts' = reconnectAttempts + 1
                   \/ lastEvent' = "open" /\ reconnectAttempts' = 0
          /\ \A i \in 1..Len(effects') :
                effects'[i].op = "Scheduling reconnect"
                   => effects'[i].arg = reconnectAttempts' + 1]_vars

\* the third retry in a row failed in the constructor and the fourth is
\* announced
C23_Witness ==
    /\ lastEvent = "retry" /\ ~everConnected /\ reconnectAttempts = 3 /\ timerActive
    /\ \E i \in 1..Len(effects) : effects[i] = [op |-> "Scheduling reconnect", arg |-> 4]

\* C24: a ping is sent by a heartbeat tick only, and only while the bridge is
\* connected on an open socket: never before the first 'open', never while a
\* retry is pending, never after the socket left OPEN and never after
\* shutdown.
C24_PingOnlyConnected ==
    [](DidOp("ws.ping")
         => /\ lastEvent = "heartbeat" /\ Count("ws.ping") = 1
            /\ isConnected /\ ws /\ readyState = "OPEN" /\ everConnected
            /\ ~timerActive /\ ~exited)

\* a ping on the first connection, after one message went each way
C24_Witness ==
    /\ DidOp("ws.ping") /\ isConnected /\ priorRetries = 0 /\ Len(sent) = 1
    /\ Len(stdout) = 1 /\ reconnectAttempts = 0

\* C25: at most one heartbeat interval is alive, it is alive exactly when its
\* handle is held, and only while the bridge is connected and running; the
\* turn that leaves the connected state and the turn of shutdown clear it.
C25_OneHeartbeatTimer ==
    /\ [](/\ heartbeatActive <= 1
          /\ heartbeatTimer <=> heartbeatActive = 1
          /\ heartbeatActive > 0 => (isConnected /\ ~exited))
    /\ [][/\ (isConnected /\ ~isConnected')
             => (heartbeatActive' = 0 /\ ~heartbeatTimer' /\ Count("clearInterval")' = 1)
          /\ (~exited /\ exited' /\ heartbeatTimer)
             => (heartbeatActive' = 0 /\ ~heartbeatTimer' /\ Count("clearInterval")' = 1)]_vars

\* the second connection closed and its heartbeat was cleared
C25_Witness ==
    /\ lastEvent = "close" /\ priorRetries >= 1 /\ ~isConnected
    /\ heartbeatActive = 0 /\ ~heartbeatTimer /\ DidOp("clearInterval")

\* C26: startHeartbeat() called while the heartbeat is armed does nothing: it
\* creates no interval and keeps the handle, so that whenever the handle has
\* been cleared no interval is alive.
C26_RearmNoOp ==
    /\ [](~heartbeatTimer => heartbeatActive = 0)
    /\ [][lastEvent' = "startHeartbeat"
            => (~DidOp("setInterval")' /\ UNCHANGED <<heartbeatTimer, heartbeatActive>>)]_vars

\* C27: the turn of a heartbeat tick and the turn of a pong change neither the
\* socket nor isConnected, the queue, the retry timer, the attempt counter or
\* the heartbeat interval; and the only turn that leaves the connected state
\* is the one of the socket's 'close' event, pong or no pong.
C27_HeartbeatDiagnostic ==
    [][/\ lastEvent' \in {"heartbeat", "pong"}
          => UNCHANGED <<ws, readyState, isConnected, messageQueue, reconnectTimer,
                         timerActive, timerDelay, reconnectAttempts, heartbeatTimer,
                         heartbeatActive, sent, stdout, exited, hung>>
       /\ (isConnected /\ ~isConnected') => lastEvent' = "close"]_vars

\* a pong on a connection that has relayed two messages
C27_Witness ==
    /\ lastEvent = "pong" /\ isConnected /\ readyState = "OPEN" /\ heartbeatActive = 1
    /\ Len(sent) = 2 /\ messageQueue = <<>> /\ ~timerActive

\* C28: the turn of a socket 'error' on an established connection logs the
\* error and changes no field of the bridge: isConnected, the queue, the
\* heartbeat interval, the retry timer and the attempt counter are as before;
\* the turn of the 'close' event is the one that clears isConnected, stops the
\* heartbeat and schedules one retry.
C28_ErrorChangesNothing ==
    [][/\ lastEvent' = "error"
          => /\ effects' = <<[op |-> "WebSocket error", arg |-> 0]>>
             /\ UNCHANGED <<ws, isConnected, messageQueue, heartbeatTimer, heartbeatActive,
                            reconnectTimer, timerActive, timerDelay, reconnectAttempts,
                            sent, stdout, exited>>
       /\ lastEvent' = "close"
          => /\ isConnected /\ ~isConnected'
             /\ heartbeatActive' = 0 /\ ~heartbeatTimer'
             /\ ~timerActive /\ timerActive' /\ Count("setTimeout")' = 1]_vars

\* an error on a connection that had sent a message: still connected, the
\* heartbeat armed, no retry pending
C28_Witness ==
    /\ lastEvent = "error" /\ isConnected /\ readyState = "CLOSING"
    /\ heartbeatActive = 1 /\ ~timerActive /\ Len(sent) >= 1 /\ reconnectAttempts = 0

\* C29: the turn in which new WebSocket throws (in start() or in a retry) ends
\* normally with the bridge not connected, exactly one retry scheduled with
\* the delay timeout(reconnectAttempts), as after a 'close', and the queue and
\* the sent texts unchanged.
C29_ConstructFailure ==
    [][DidOp("Failed to create WebSocket")'
         => /\ lastEvent' \in {"start", "retry"}
            /\ ~exited' /\ ~hung' /\ ~isConnected'
            /\ reconnectTimer' /\ timerActive' /\ Count("setTimeout")' = 1
            /\ Count("Scheduling reconnect")' = 1
            /\ timerDelay' = timeout(reconnectAttempts')
            /\ UNCHANGED <<messageQueue, sent, stdout>>]_vars

\* the first retry after a lost connection threw in the constructor, with a
\* message waiting in the queue
C29_Witness ==
    /\ lastEvent = "retry" /\ DidOp("Failed to create WebSocket") /\ everConnected
    /\ reconnectAttempts = 1 /\ timerActive /\ timerDelay = timeout(1)
    /\ Len(messageQueue) >= 1 /\ ~isConnected

\* C30: in every turn but that of the 'open' event the queue as it was is a
\* prefix of the queue afterwards: only the turn that sets isConnected takes
\* messages out of it.
C30_DequeueOnlyOnOpen ==
    [][~(/\ Len(messageQueue') >= Len(messageQueue)
         /\ SubSeq(messageQueue', 1, Len(messageQueue)) = messageQueue)
         => (lastEvent' = "open" /\ ~isConnected /\ isConnected' /\ messageQueue' = <<>>)]_vars

\* the 'open' turn took one message out of the queue, after a connection
\* that had relayed one message each way
C30_Witness ==
    /\ lastEvent = "open" /\ Count("ws.send") = 1 /\ messageQueue = <<>>
    /\ Len(sent) = 2 /\ Len(stdout) = 1 /\ priorRetries >= 1

(***************************************************************************)
(* C31..C35                                                                *)
(***************************************************************************)
\* C31: at the end of every turn, a bridge that is connected on an open socket
\* has an empty queue; so the turn of a stdin line that hands its message to
\* ws.send directly found the queue empty and leaves it empty: no earlier
\* message is waiting while a later one is sent.
C31_ConnectedQueueEmpty ==
    /\ []((isConnected /\ ws /\ readyState = "OPEN") => messageQueue = <<>>)
    /\ [][(stdinGood' # stdinGood /\ DidOp("ws.send")')
            => (messageQueue = <<>> /\ messageQueue' = <<>>)]_vars

\* a line sent directly on a connection whose 'open' turn had drained two
\* queued messages
C31_Witness ==
    /\ lastEvent = "line" /\ Count("ws.send") = 1 /\ isConnected /\ readyState = "OPEN"
    /\ Values(sent) = <<1, 2, 3>> /\ messageQueue = <<>> /\ priorRetries >= 1

\* C32: while the process has not exited, every well-formed message read from
\* stdin is either among the texts handed to ws.send, once, or in the queue,
\* once, and never both; and nothing else is in either.
C32_NothingLost ==
    [](~exited
         => /\ \A k \in 1..stdinGood :
                  Occurrences(Values(sent), k) + Occurrences(messageQueue, k) = 1
            /\ Len(sent) + Len(messageQueue) = stdinGood)

\* two messages were sent, the connection was lost and a third waits in the
\* queue for the retry
C32_Witness ==
    /\ ~exited /\ stdinGood = 3 /\ Values(sent) = <<1, 2>> /\ messageQueue = <<3>>
    /\ everConnected /\ ~isConnected /\ timerActive

\* C33: a socket is constructed only by the turn of start() and by the turn of
\* a retry, one per turn, and only when this.ws is null or a socket that is
\* CLOSED; a retry is scheduled only by the turn that closed the socket or by
\* a turn whose constructor threw, and while it is pending no socket is
\* connecting, open or closing.  So a socket is never replaced while it can
\* still emit events: at most one is connecting or open at any time.
C33_OneTransport ==
    /\ [](timerActive => readyState \in {"NONE", "CLOSED"})
    /\ [][DidOp("new WebSocket")'
            => /\ Count("new WebSocket")' = 1
               /\ lastEvent' \in {"start", "retry"}
               /\ readyState \in {"NONE", "CLOSED"}]_vars
    /\ [][DidOp("setTimeout")'
            => /\ readyState' \in {"NONE", "CLOSED"}
               /\ \/ /\ lastEvent' \in {"close", "connectFail"}
                     /\ readyState \in {"CONNECTING", "OPEN", "CLOSING"}
                  \/ /\ lastEvent' \in {"start", "retry"}
                     /\ DidOp("Failed to create WebSocket")']_vars

\* the second retry after an established connection closed constructs a
\* socket, the previous one being CLOSED
C33_Witness ==
    /\ lastEvent = "retry" /\ Count("new WebSocket") = 1 /\ readyState = "CONNECTING"
    /\ everConnected /\ reconnectAttempts = 2 /\ ~timerActive /\ ~isConnected

\* C34: while a retry timer is pending the bridge is not connected, no
\* heartbeat interval is armed or alive and no socket is connecting; so the
\* retry timer and a heartbeat interval are never pending together.
C34_RetryExcludesHeartbeat ==
    /\ [](timerActive
            => /\ ~isConnected
               /\ ~heartbeatTimer /\ heartbeatActive = 0
               /\ readyState # "CONNECTING")
    /\ [](~(timerActive /\ (heartbeatTimer \/ heartbeatActive > 0)))

\* the first retry after an established connection was lost has failed, and
\* the second is pending
C34_Witness ==
    /\ Running /\ timerActive /\ lastEvent = "connectFail" /\ everConnected
    /\ reconnectAttempts = 1 /\ ~isConnected /\ heartbeatActive = 0 /\ readyState = "CLOSED"

\* C35: the turn that runs shutdown() hands nothing to ws.send and leaves the
\* queue as it was, whatever is waiting in it; and once the process has
\* exited nothing is sent and the queue stays as it is.
C35_ShutdownDeliversNothing ==
    /\ [][(~exited /\ exited')
            => /\ messageQueue' = messageQueue /\ sent' = sent
               /\ ~DidOp("ws.send")' /\ ~DidOp("Sending queued message")'
               /\ ~DidOp("push")']_vars
    /\ [][exited => UNCHANGED <<messageQueue, sent>>]_vars

\* SIGINT while a socket was connecting, with two messages waiting in the
\* queue behind one that had been sent
C35_Witness ==
    /\ exited /\ lastEvent = "SIGINT" /\ DidOp("ws.close") /\ readyState = "CLOSING"
    /\ messageQueue = <<2, 3>> /\ Values(sent) = <<1>> /\ ~isConnected

====
